---- MODULE Spec2Model ----
(***************************************************************************)
(* Lease-based job-stage worker of app.py: worker_loop claims one stage    *)
(* from the queue store, generates its output with a primary tier and one  *)
(* fallback attempt, and reports the stage done or failed.                 *)
(* Several worker processes run the same loop against one store.           *)
(***************************************************************************)
EXTENDS Integers, Sequences, FiniteSets, TLC

\* ------------------------------------------------------------- universe
Workers == {"w1", "w2"}
Stages == {"s1", "s2"}
None == "none"

\* Consecutive empty polls counted in one observation window.
MaxStreak == 3

\* The default of WORKER_POLL_SECONDS.
WORKER_POLL_SECONDS == 3
ERROR_BACKOFF_SECONDS == 5

\* MODELS: tier -> model name.
MODELS(tier) ==
    CASE tier = "flash" -> "gemini-1.5-flash"
      [] tier = "pro" -> "gemini-3.1-pro-preview"
      [] tier = "ultra" -> "gemini-3.1-pro-preview"
      [] OTHER -> "gemini-1.5-flash"

\* get_model: the model name a tier resolves to (unknown tier -> flash model).
get_model(tier) == MODELS(tier)

\* The fields of the row the store returns for a stage.
StageRow(s) ==
    IF s = "s1"
    THEN [stage_id |-> "s1", job_type |-> "studio_video", category |-> "game_developer"]
    ELSE [stage_id |-> "s2", job_type |-> "general", category |-> "seo_expert"]

\* The external model_routing table: a row for seo_expert, none for
\* game_developer.
NoRow == [primary_tier |-> None, fallback_tier |-> None]
model_routing ==
    [c \in {"game_developer", "seo_expert"} |->
        IF c = "seo_expert"
        THEN [primary_tier |-> "pro", fallback_tier |-> "flash"]
        ELSE NoRow]

\* What one generate_content call can do: return a response of some shape,
\* or raise with a message.
Responses == {"text", "empty", "malformed"}
ErrMsgs == {"transport", "quota"}

VARIABLES
    enabled,        \* WORKER_ENABLED of each worker process
    supabase,       \* whether the process has a store client (URL and KEY set)
    gemini_key,     \* whether GEMINI_API_KEY is set
    poll_seconds,   \* the configured WORKER_POLL_SECONDS
    stages,         \* the external queue store: stage -> [state, owner]
    pc,             \* position of each worker in worker_loop
    stage_id,       \* worker_loop local
    tiers,          \* generate_with_gemini locals primary / fallback
    output,         \* worker_loop local bound by generate_with_gemini
    exc,            \* the exception in flight / err of the handler
    granted,        \* the row claim_next_stage returned this iteration (local stage)
    completeCalls,  \* history: complete_stage RPCs issued this iteration
    genCalls,       \* history: generate_content calls issued this iteration
    leaseLost,      \* history: the store expired the lease the worker is working under
    rpcIssued,      \* history: the worker ever issued a claim, generation or complete call
    emptyStreak,    \* history: consecutive empty claims in the current window
    pollSleeps,     \* history: poll-interval sleeps in the current window
    lastSleep       \* history: duration of the most recent sleep

vars == << enabled, supabase, gemini_key, poll_seconds, stages, pc, stage_id, tiers,
           output, exc, granted, completeCalls, genCalls, leaseLost, rpcIssued,
           emptyStreak, pollSleeps, lastSleep >>

config == << enabled, supabase, gemini_key, poll_seconds >>

NoTiers == [primary |-> None, fallback |-> None]
\* output before generate_with_gemini has returned in the iteration.
NoOutput == [engine |-> None, text |-> None, tier |-> None]
\* The minimal payload of the failure report.
FailureOutput == [engine |-> "worker", note |-> "failed"]

\* ------------------------------------------------------------- helpers
\* What the call history keeps of one generate_content call: "ok" or the message
\* of the exception it raised.
CallResult(o) == IF o \in Responses THEN "ok" ELSE o

\* safe_get_text: the text extracted from a response; a response without
\* candidates or parts gives the sentinel, a response whose structure cannot be
\* read gives the conversion-error sentinel (the exception is swallowed).
safe_get_text(resp) ==
    CASE resp = "text" -> "generated"
      [] resp = "empty" -> "Yanit alinamadi."
      [] OTHER -> "Metin donusturme hatasi olustu."

\* A router whose default is the most capable tier.
DefaultRouting_pro == [primary_tier |-> "pro", fallback_tier |-> "pro"]

DefaultRouting == [primary_tier |-> "flash", fallback_tier |-> "flash"]

\* The row of the routing table for a category, NoRow if it has none.
RoutingRow(category) ==
    IF category \in DOMAIN model_routing THEN model_routing[category] ELSE NoRow

\* The ways one routing lookup can go: not attempted (no store client or no
\* category), the table read raises, or it returns the row or nothing.
LookupOutcomes(w, category) ==
    IF ~supabase[w] \/ category = ""
    THEN {"skipped"}
    ELSE {"failed", IF RoutingRow(category) # NoRow THEN "row" ELSE "norow"}

\* db_get_routing for one lookup outcome: the default, updated by the row read.
db_get_routing_on(category, lookup) ==
    IF lookup = "row" THEN RoutingRow(category) ELSE DefaultRouting

\* db_get_routing: the routings the lookup can produce for worker w.
db_get_routing(w, category) ==
    {db_get_routing_on(category, l) : l \in LookupOutcomes(w, category)}

\* ------------------------------------------------------------- queue store
Pending(st) == {s \in Stages : st[s].state = "pending"}

\* RPC claim_next_stage of the store: atomically leases one pending stage to w.
StoreClaim(st, w) ==
    IF Pending(st) = {}
    THEN {[st |-> st, row |-> None]}
    ELSE {[st |-> [st EXCEPT ![s] = [state |-> "leased", owner |-> w]], row |-> s] :
             s \in Pending(st)}

\* RPC complete_stage of the store: marks the stage done or failed; a no-op on a
\* stage that is already completed (or unknown).
StoreComplete(st, id, w, error) ==
    IF id \in Stages /\ st[id].state \in {"pending", "leased"}
    THEN [st EXCEPT ![id] = [state |-> IF error = None THEN "done" ELSE "failed",
                             owner |-> None]]
    ELSE st

\* ------------------------------------------------------------- queue client
\* A claim that reads a pending row without the store's atomic lease.
claim_next_stage_select(st, w) ==
    IF ~supabase[w]
    THEN {[st |-> st, row |-> None, raised |-> FALSE, issued |-> FALSE]}
    ELSE {[st |-> st, row |-> s, raised |-> FALSE, issued |-> TRUE] : s \in Pending(st)}
         \cup {[st |-> st, row |-> None, raised |-> Pending(st) # {}, issued |-> TRUE]}

\* claim_next_stage: the outcomes of one call by worker w: no call without a
\* store client; otherwise the RPC raises, or returns the first row or none.
claim_next_stage(st, w) ==
    IF ~supabase[w]
    THEN {[st |-> st, row |-> None, raised |-> FALSE, issued |-> FALSE]}
    ELSE {[st |-> r.st, row |-> r.row, raised |-> FALSE, issued |-> TRUE] :
             r \in StoreClaim(st, w)}
         \cup {[st |-> st, row |-> None, raised |-> TRUE, issued |-> TRUE]}

\* complete_stage: the outcomes of one call by worker w.
complete_stage(st, w, id, error) ==
    IF ~supabase[w]
    THEN {[st |-> st, raised |-> FALSE, issued |-> FALSE]}
    ELSE {[st |-> StoreComplete(st, id, w, error), raised |-> FALSE, issued |-> TRUE],
          [st |-> st, raised |-> TRUE, issued |-> TRUE]}

\* ------------------------------------------------------------- worker_loop
\* A gate that forgets the store check.
StartGate_noStoreCheck(en, sb) == en

\* The startup gate: the loop starts only if enabled and a store client exists.
StartGate(en, sb) == en /\ sb

\* A loop that does not reset stage_id.
IterStageId_stale(old) == old

\* stage_id at the top of every iteration.
IterStageId(old) == None

\* An empty claim that continues without sleeping.
\* A loop that gives up polling once it finds the queue empty.
OnEmptyClaim_exit == "returned"

OnEmptyClaim_spin == "loop"

\* Where an empty claim leads: the poll sleep, then continue.
OnEmptyClaim == "sleep_poll"

\* A fallback outcome tagged with the primary tier.
FallbackOutcomeTier_primary(t) == t.primary

\* The tier the outcome of a successful fallback attempt is tagged with.
FallbackOutcomeTier(t) == t.fallback

\* A failure report that passes no error.
FailureReportError_none(e) == None

\* The error argument of the failure report: err = str(e).
FailureReportError(e) == e

\* A handler whose stage_id test is inverted.
\* A handler that reports a failure whether or not a stage_id is held.
ReportsFailure_always(id) == TRUE

ReportsFailure_inverted(id) == id = None

\* Whether the handler reports the failure: if stage_id.
ReportsFailure(id) == id # None

\* A failure report whose exception is not caught.
OnMarkFailedError_uncaught == "crashed"

\* An exception of the failure report itself is caught and logged.
OnMarkFailedError == "sleep_err"

\* The deployments considered: w2 is fully configured, w1 has any configuration.
Flags == {f \in [Workers -> BOOLEAN] : f["w2"]}

\* The state after module load, with WORKER_POLL_SECONDS read from a set of
\* configured values.
InitWith(polls) ==
    /\ enabled \in Flags
    /\ supabase \in Flags
    /\ gemini_key \in Flags
    /\ poll_seconds \in polls
    /\ stages = [s \in Stages |-> [state |-> "none", owner |-> None]]
    /\ pc = [w \in Workers |-> "boot"]
    /\ stage_id = [w \in Workers |-> None]
    /\ tiers = [w \in Workers |-> NoTiers]
    /\ output = [w \in Workers |-> NoOutput]
    /\ exc = [w \in Workers |-> None]
    /\ granted = [w \in Workers |-> None]
    /\ completeCalls = [w \in Workers |-> << >>]
    /\ genCalls = [w \in Workers |-> << >>]
    /\ leaseLost = [w \in Workers |-> FALSE]
    /\ rpcIssued = [w \in Workers |-> FALSE]
    /\ emptyStreak = [w \in Workers |-> 0]
    /\ pollSleeps = [w \in Workers |-> 0]
    /\ lastSleep = [w \in Workers |-> 0]

\* The deployment with the default poll interval.
Init == InitWith({WORKER_POLL_SECONDS})

\* POST /order: create_job_and_spend inserts the stage as pending.
create_order(s) ==
    /\ stages[s].state = "none"
    /\ stages' = [stages EXCEPT ![s] = [state |-> "pending", owner |-> None]]
    /\ UNCHANGED << config, pc, stage_id, tiers, output, exc, granted, completeCalls,
                    genCalls, leaseLost, rpcIssued, emptyStreak, pollSleeps, lastSleep >>

\* The store expires a lease: the stage reverts to pending.
ExpireLease(s) ==
    /\ stages[s].state = "leased"
    /\ stages' = [stages EXCEPT ![s] = [state |-> "pending", owner |-> None]]
    /\ leaseLost' = [w \in Workers |->
                        leaseLost[w] \/ (stages[s].owner = w /\ granted[w] = s)]
    /\ UNCHANGED << config, pc, stage_id, tiers, output, exc, granted, completeCalls,
                    genCalls, rpcIssued, emptyStreak, pollSleeps, lastSleep >>

\* worker_loop entry: the two startup checks.
Start(w) ==
    /\ pc[w] = "boot"
    /\ pc' = [pc EXCEPT ![w] = IF StartGate(enabled[w], supabase[w])
                               THEN "loop" ELSE "returned"]
    /\ UNCHANGED << config, stages, stage_id, tiers, output, exc, granted, completeCalls,
                    genCalls, leaseLost, rpcIssued, emptyStreak, pollSleeps, lastSleep >>

\* The iteration is over once its sleep returns: its history is dropped, and so
\* are output and the exception, which the next iteration never reads.
EndIteration(w) ==
    /\ output' = [output EXCEPT ![w] = NoOutput]
    /\ exc' = [exc EXCEPT ![w] = None]
    /\ granted' = [granted EXCEPT ![w] = None]
    /\ completeCalls' = [completeCalls EXCEPT ![w] = << >>]
    /\ genCalls' = [genCalls EXCEPT ![w] = << >>]
    /\ leaseLost' = [leaseLost EXCEPT ![w] = FALSE]

\* stage.get("stage_id"): the id field of the returned row, None if the row
\* has none.
RowStageId(row, idPresent) == IF idPresent THEN StageRow(row).stage_id ELSE None

\* Top of an iteration: stage_id = None, then claim_next_stage; idPresent
\* tells whether a returned row carries its stage_id field.
ClaimWith(w, idPresent) ==
    /\ pc[w] = "loop"
    /\ \E r \in claim_next_stage(stages, w) :
        /\ idPresent \/ (~r.raised /\ r.row # None)
        /\ stages' = r.st
        /\ rpcIssued' = [rpcIssued EXCEPT ![w] = @ \/ r.issued]
        /\ granted' = [granted EXCEPT ![w] = r.row]
        /\ completeCalls' = [completeCalls EXCEPT ![w] = << >>]
        /\ genCalls' = [genCalls EXCEPT ![w] = << >>]
        /\ leaseLost' = [leaseLost EXCEPT ![w] = FALSE]
        /\ output' = [output EXCEPT ![w] = NoOutput]
        /\ tiers' = [tiers EXCEPT ![w] = NoTiers]
        /\ IF r.raised
           THEN /\ pc' = [pc EXCEPT ![w] = "except"]
                /\ exc' = [exc EXCEPT ![w] = "claim_error"]
                /\ stage_id' = [stage_id EXCEPT ![w] = IterStageId(@)]
                /\ emptyStreak' = [emptyStreak EXCEPT ![w] = 0]
                /\ pollSleeps' = [pollSleeps EXCEPT ![w] = 0]
           ELSE IF r.row = None
           THEN /\ pc' = [pc EXCEPT ![w] = OnEmptyClaim]
                /\ exc' = [exc EXCEPT ![w] = None]
                /\ stage_id' = [stage_id EXCEPT ![w] = IterStageId(@)]
                /\ emptyStreak' = [emptyStreak EXCEPT ![w] =
                                      IF @ >= MaxStreak THEN 1 ELSE @ + 1]
                /\ pollSleeps' = [pollSleeps EXCEPT ![w] =
                                      IF emptyStreak[w] >= MaxStreak THEN 0 ELSE @]
           ELSE /\ pc' = [pc EXCEPT ![w] = "generate"]
                /\ exc' = [exc EXCEPT ![w] = None]
                /\ stage_id' = [stage_id EXCEPT ![w] = RowStageId(r.row, idPresent)]
                /\ emptyStreak' = [emptyStreak EXCEPT ![w] = 0]
                /\ pollSleeps' = [pollSleeps EXCEPT ![w] = 0]
        /\ lastSleep' = [lastSleep EXCEPT ![w] = 0]
    /\ UNCHANGED config

\* An iteration against a store that returns well-formed rows.
Claim(w) == ClaimWith(w, TRUE)

\* An iteration whose claim returns a row without a stage_id field.
ClaimMalformed(w) == ClaimWith(w, FALSE)

\* asyncio.sleep(WORKER_POLL_SECONDS); continue.
SleepPoll(w) ==
    /\ pc[w] = "sleep_poll"
    /\ pc' = [pc EXCEPT ![w] = "loop"]
    /\ pollSleeps' = [pollSleeps EXCEPT ![w] = @ + 1]
    /\ lastSleep' = [lastSleep EXCEPT ![w] = poll_seconds]
    /\ EndIteration(w)
    /\ UNCHANGED << config, stages, stage_id, tiers, rpcIssued, emptyStreak >>

\* generate_with_gemini up to the end of the primary attempt.
GenPrimary(w) ==
    /\ pc[w] = "generate"
    /\ IF ~gemini_key[w]
       THEN /\ pc' = [pc EXCEPT ![w] = "except"]
            /\ exc' = [exc EXCEPT ![w] = "no_api_key"]
            /\ UNCHANGED << tiers, output, genCalls, rpcIssued >>
       ELSE \E l \in LookupOutcomes(w, StageRow(granted[w]).category),
               o \in Responses \cup ErrMsgs :
            LET rt == db_get_routing_on(StageRow(granted[w]).category, l) IN
            /\ tiers' = [tiers EXCEPT ![w] =
                            IF o \in Responses THEN NoTiers
                            ELSE [primary |-> rt.primary_tier,
                                  fallback |-> rt.fallback_tier]]
            /\ genCalls' = [genCalls EXCEPT ![w] =
                               Append(@, [tier |-> rt.primary_tier,
                                          model |-> get_model(rt.primary_tier),
                                          result |-> CallResult(o)])]
            /\ rpcIssued' = [rpcIssued EXCEPT ![w] = TRUE]
            /\ IF o \in Responses
               THEN /\ output' = [output EXCEPT ![w] =
                                     [engine |-> "gemini", text |-> safe_get_text(o),
                                      tier |-> rt.primary_tier]]
                    /\ pc' = [pc EXCEPT ![w] = "complete"]
               ELSE /\ pc' = [pc EXCEPT ![w] = "fallback"]
                    /\ UNCHANGED output
            /\ UNCHANGED exc
    /\ UNCHANGED << config, stages, stage_id, granted, completeCalls, leaseLost,
                    emptyStreak, pollSleeps, lastSleep >>

\* generate_with_gemini, the except branch: one attempt with the fallback tier;
\* its exception propagates to worker_loop.
GenFallback(w) ==
    /\ pc[w] = "fallback"
    /\ \E o \in Responses \cup ErrMsgs :
        /\ genCalls' = [genCalls EXCEPT ![w] =
                           Append(@, [tier |-> tiers[w].fallback,
                                      model |-> get_model(tiers[w].fallback),
                                      result |-> CallResult(o)])]
        /\ IF o \in Responses
           THEN /\ output' = [output EXCEPT ![w] =
                                 [engine |-> "gemini", text |-> safe_get_text(o),
                                  tier |-> FallbackOutcomeTier(tiers[w])]]
                /\ pc' = [pc EXCEPT ![w] = "complete"]
                /\ UNCHANGED exc
           ELSE /\ pc' = [pc EXCEPT ![w] = "except"]
                /\ exc' = [exc EXCEPT ![w] = o]
                /\ UNCHANGED output
        /\ tiers' = [tiers EXCEPT ![w] = NoTiers]
    /\ UNCHANGED << config, stages, stage_id, granted, completeCalls, leaseLost,
                    rpcIssued, emptyStreak, pollSleeps, lastSleep >>

\* await complete_stage(stage_id, output, None) on the success path.
CompleteOk(w) ==
    /\ pc[w] = "complete"
    /\ \E r \in complete_stage(stages, w, stage_id[w], None) :
        /\ stages' = r.st
        /\ completeCalls' = [completeCalls EXCEPT ![w] =
                                IF r.issued
                                THEN Append(@, [id |-> stage_id[w], error |-> None,
                                                output |-> output[w],
                                                raised |-> r.raised])
                                ELSE @]
        /\ IF r.raised
           THEN /\ pc' = [pc EXCEPT ![w] = "except"]
                /\ exc' = [exc EXCEPT ![w] = "complete_error"]
           ELSE /\ pc' = [pc EXCEPT ![w] = "loop"]
                /\ UNCHANGED exc
    /\ UNCHANGED << config, stage_id, tiers, output, granted, genCalls, leaseLost,
                    rpcIssued, emptyStreak, pollSleeps, lastSleep >>

\* except Exception as e: report the stage failed if a stage_id is held.
Handler(w) ==
    /\ pc[w] = "except"
    /\ IF ReportsFailure(stage_id[w])
       THEN \E r \in complete_stage(stages, w, stage_id[w], FailureReportError(exc[w])) :
            /\ stages' = r.st
            /\ completeCalls' = [completeCalls EXCEPT ![w] =
                                    IF r.issued
                                    THEN Append(@, [id |-> stage_id[w],
                                                    error |-> FailureReportError(exc[w]),
                                                    output |-> FailureOutput,
                                                    raised |-> r.raised])
                                    ELSE @]
            /\ pc' = [pc EXCEPT ![w] = IF r.raised THEN OnMarkFailedError ELSE "sleep_err"]
       ELSE /\ pc' = [pc EXCEPT ![w] = "sleep_err"]
            /\ UNCHANGED << stages, completeCalls >>
    /\ UNCHANGED << config, stage_id, tiers, output, exc, granted, genCalls, leaseLost,
                    rpcIssued, emptyStreak, pollSleeps, lastSleep >>

\* await asyncio.sleep(5) at the end of the handler.
SleepErr(w) ==
    /\ pc[w] = "sleep_err"
    /\ pc' = [pc EXCEPT ![w] = "loop"]
    /\ lastSleep' = [lastSleep EXCEPT ![w] = ERROR_BACKOFF_SECONDS]
    /\ EndIteration(w)
    /\ UNCHANGED << config, stages, stage_id, tiers, rpcIssued, emptyStreak, pollSleeps >>

\* The process is killed from outside (shutdown), at any point of the loop.
Kill(w) ==
    /\ pc[w] \notin {"boot", "returned", "killed", "crashed"}
    /\ pc' = [pc EXCEPT ![w] = "killed"]
    /\ stage_id' = [stage_id EXCEPT ![w] = None]
    /\ tiers' = [tiers EXCEPT ![w] = NoTiers]
    /\ output' = [output EXCEPT ![w] = NoOutput]
    /\ exc' = [exc EXCEPT ![w] = None]
    /\ granted' = [granted EXCEPT ![w] = None]
    /\ completeCalls' = [completeCalls EXCEPT ![w] = << >>]
    /\ genCalls' = [genCalls EXCEPT ![w] = << >>]
    /\ leaseLost' = [leaseLost EXCEPT ![w] = FALSE]
    /\ emptyStreak' = [emptyStreak EXCEPT ![w] = 0]
    /\ pollSleeps' = [pollSleeps EXCEPT ![w] = 0]
    /\ lastSleep' = [lastSleep EXCEPT ![w] = 0]
    /\ UNCHANGED << config, stages, rpcIssued >>

WorkerStep(w) ==
    \/ Start(w)
    \/ Claim(w)
    \/ SleepPoll(w)
    \/ GenPrimary(w)
    \/ GenFallback(w)
    \/ CompleteOk(w)
    \/ Handler(w)
    \/ SleepErr(w)

Next ==
    \/ \E w \in Workers : Start(w)
    \/ \E w \in Workers : Claim(w)
    \/ \E w \in Workers : SleepPoll(w)
    \/ \E w \in Workers : GenPrimary(w)
    \/ \E w \in Workers : GenFallback(w)
    \/ \E w \in Workers : CompleteOk(w)
    \/ \E w \in Workers : Handler(w)
    \/ \E w \in Workers : SleepErr(w)
    \/ \E w \in Workers : Kill(w)
    \/ \E s \in Stages : create_order(s)
    \/ \E s \in Stages : ExpireLease(s)

Spec == Init /\ [][Next]_vars

\* The deployment of the liveness checks: both workers enabled with a store
\* client, w1 with or without the generation credential, and a single order
\* (stage s1) that the two workers compete for.
FairInit ==
    /\ Init
    /\ \A w \in Workers : enabled[w] /\ supabase[w]

FairNext ==
    \/ \E w \in Workers : Start(w)
    \/ \E w \in Workers : Claim(w)
    \/ \E w \in Workers : SleepPoll(w)
    \/ \E w \in Workers : GenPrimary(w)
    \/ \E w \in Workers : GenFallback(w)
    \/ \E w \in Workers : CompleteOk(w)
    \/ \E w \in Workers : Handler(w)
    \/ \E w \in Workers : SleepErr(w)
    \/ \E w \in Workers : Kill(w)
    \/ create_order("s1")
    \/ \E s \in Stages : ExpireLease(s)

\* Store and generation calls return and sleeps end; a kill is never forced.
FairSpec ==
    /\ FairInit
    /\ [][FairNext]_vars
    /\ \A w \in Workers : WF_vars(WorkerStep(w))

\* ------------------------------------------------------------- properties
\* Worker w treats stage s as leased: between its claim of s and its terminal
\* complete_stage call.
Treats(w, s) ==
    /\ pc[w] \in {"generate", "fallback", "complete", "except"}
    /\ stage_id[w] = s

\* The iteration's work is over: the worker sleeps or is back at the loop top.
IterationOver(w) == pc[w] \in {"loop", "sleep_poll", "sleep_err"}

\* C1: every complete_stage call of a worker carries the stage_id the store
\* granted to that worker in the same iteration.
C1_CompleteOnlyOwnClaim ==
    \A w \in Workers : \A i \in 1..Len(completeCalls[w]) :
        /\ granted[w] \in Stages
        /\ completeCalls[w][i].id = granted[w]

C1_Witness ==
    \E w \in Workers :
        /\ Len(completeCalls[w]) = 2
        /\ completeCalls[w][1].id = granted[w]
        /\ completeCalls[w][2].id = granted[w]

\* C2 as stated: no two workers treat the same stage as leased at once.
C2_AtMostOneTreating ==
    \A s \in Stages : Cardinality({w \in Workers : Treats(w, s)}) <= 1

\* C2 amended: among the workers whose lease on the stage has not expired, at
\* most one treats a given stage as leased.
C2_AtMostOneUnexpired ==
    \A s \in Stages :
        Cardinality({w \in Workers : Treats(w, s) /\ ~leaseLost[w]}) <= 1

C2_Witness ==
    \E s \in Stages : \E w1, w2 \in Workers :
        /\ w1 # w2
        /\ Treats(w1, s) /\ leaseLost[w1]
        /\ Treats(w2, s) /\ ~leaseLost[w2]
        /\ stages[s] = [state |-> "leased", owner |-> w2]

\* C3: once the work of an iteration that claimed a stage is over, at least one
\* complete_stage call for that stage has been issued, so none is pending when
\* the next claim is made.
C3_CompleteBeforeNextClaim ==
    \A w \in Workers :
        (IterationOver(w) /\ granted[w] # None) =>
            /\ Len(completeCalls[w]) >= 1
            /\ completeCalls[w][1].id = granted[w]

C3_Witness ==
    \E w \in Workers :
        /\ pc[w] = "sleep_err"
        /\ granted[w] # None
        /\ exc[w] = "no_api_key"
        /\ Len(completeCalls[w]) = 1

\* C4: at most two generation calls per claimed stage; the second only after
\* the first failed and with the fallback tier; the outcome carries the tier of
\* the call that succeeded and is reported with error none.
C4_TwoAttemptPolicy ==
    \A w \in Workers :
        LET g == genCalls[w]
            n == Len(genCalls[w])
        IN  /\ n <= 2
            /\ n >= 1 =>
                   \E rt \in db_get_routing(w, StageRow(granted[w]).category) :
                       /\ g[1].tier = rt.primary_tier
                       /\ n = 2 => g[2].tier = rt.fallback_tier
            /\ n = 2 => g[1].result # "ok"
            /\ (n = 1 /\ pc[w] # "fallback") => g[1].result = "ok"
            /\ output[w] # NoOutput =>
                   /\ n >= 1
                   /\ g[n].result = "ok"
                   /\ output[w].tier = g[n].tier
                   /\ Len(completeCalls[w]) >= 1 =>
                          /\ completeCalls[w][1].error = None
                          /\ completeCalls[w][1].output = output[w]

C4_Witness ==
    \E w \in Workers :
        /\ Len(genCalls[w]) = 2
        /\ genCalls[w][1].tier = "pro"
        /\ genCalls[w][2] = [tier |-> "flash", model |-> "gemini-1.5-flash", result |-> "ok"]
        /\ output[w].tier = "flash"
        /\ Len(completeCalls[w]) = 1
        /\ completeCalls[w][1].error = None

\* The worker is at the top of the loop, about to issue claim_next_stage.
AtClaim(w) == pc[w] = "loop"

\* The worker's claim_next_stage call has just returned or raised.
JustClaimed(w) ==
    \/ pc[w] \in {"generate", "sleep_poll"}
    \/ pc[w] = "except" /\ exc[w] = "claim_error"

\* Both generation attempts of the iteration failed.
TotalFailure(w) == Len(genCalls[w]) = 2 /\ genCalls[w][2].result # "ok"

\* C5: after both attempts failed, the handler issues exactly one complete_stage
\* call for the claimed stage with the fallback attempt's error message and the
\* minimal failure output; the worker does not crash and, unless it is killed,
\* issues claim_next_stage again.
C5_TotalFailureReported ==
    \A w \in Workers :
        /\ [](TotalFailure(w) /\ pc[w] # "except" =>
                 /\ pc[w] = "sleep_err"
                 /\ Len(completeCalls[w]) = 1
                 /\ completeCalls[w][1].id = granted[w]
                 /\ completeCalls[w][1].error = genCalls[w][2].result
                 /\ completeCalls[w][1].error # None
                 /\ completeCalls[w][1].output = FailureOutput)
        /\ TotalFailure(w) ~> (AtClaim(w) \/ pc[w] = "killed")
        /\ AtClaim(w) ~> (JustClaimed(w) \/ pc[w] = "killed")

C5_Witness ==
    \E w \in Workers :
        /\ TotalFailure(w)
        /\ pc[w] = "sleep_err"
        /\ genCalls[w][1].result = "transport"
        /\ completeCalls[w][1].error = "quota"

\* C6: an iteration whose claim returned none issues no generation and no
\* complete_stage call and sleeps the poll interval once; after N consecutive
\* empty claims there have been N poll sleeps.
C6_IdlePolling ==
    \A w \in Workers :
        /\ pc[w] = "sleep_poll" =>
               /\ emptyStreak[w] >= 1
               /\ pollSleeps[w] = emptyStreak[w] - 1
               /\ completeCalls[w] = << >> /\ genCalls[w] = << >>
        /\ (pc[w] = "loop" /\ emptyStreak[w] >= 1) =>
               /\ pollSleeps[w] = emptyStreak[w]
               /\ lastSleep[w] = poll_seconds
               /\ completeCalls[w] = << >> /\ genCalls[w] = << >>

C6_Witness ==
    \E w \in Workers :
        pc[w] = "loop" /\ emptyStreak[w] = 3 /\ pollSleeps[w] = 3

\* The positions of a worker inside the polling loop.
InLoop(w) ==
    pc[w] \in {"loop", "sleep_poll", "generate", "fallback", "complete", "except",
               "sleep_err"}

\* C7: no failure ends the loop: a worker never crashes, and from every position
\* in the loop it issues claim_next_stage again unless it is killed.
C7_LoopNeverTerminates ==
    \A w \in Workers :
        /\ [](pc[w] # "crashed")
        /\ InLoop(w) ~> (AtClaim(w) \/ pc[w] = "killed")
        /\ AtClaim(w) ~> (JustClaimed(w) \/ pc[w] = "killed")

C7_Witness ==
    \E w \in Workers :
        /\ pc[w] = "sleep_err"
        /\ Len(completeCalls[w]) = 2
        /\ completeCalls[w][1].raised
        /\ completeCalls[w][2].raised

\* C8: a worker that is disabled or has no store client never enters the loop
\* and never issues a claim, generation or complete call.
C8_NoStartWhenDisabled ==
    \A w \in Workers :
        (~enabled[w] \/ ~supabase[w]) =>
            /\ pc[w] \in {"boot", "returned"}
            /\ ~rpcIssued[w]

C8_Witness ==
    \E w, v \in Workers :
        /\ enabled[w] /\ ~supabase[w] /\ pc[w] = "returned"
        /\ pc[v] = "generate"

\* C9 as stated: at most one complete_stage call per iteration.
C9_AtMostOneCompletePerIteration ==
    \A w \in Workers : Len(completeCalls[w]) <= 1

\* C10 as stated: at most one stage is leased to a worker in the store.
C10_AtMostOneLeasedPerWorker ==
    \A w \in Workers :
        Cardinality({s \in Stages : stages[s] = [state |-> "leased", owner |-> w]}) <= 1

\* ------------------------------------------------------------- recovery
\* The last complete_stage call of worker w returned without raising.
LastCompleteReturned(w) ==
    /\ Len(completeCalls[w]) >= 1
    /\ ~completeCalls[w][Len(completeCalls[w])].raised

\* Store calls return: a claim, a success report and a failure report that are
\* attempted again and again do not raise every time, and the store expires a
\* lease that stays held. Generation calls return but need never succeed; a
\* kill is never forced.
RecoverySpec ==
    /\ FairInit
    /\ [][FairNext]_vars
    /\ \A w \in Workers :
           /\ WF_vars(WorkerStep(w))
           /\ SF_vars(Claim(w) /\ pc'[w] # "except")
           /\ SF_vars(CompleteOk(w) /\ pc'[w] = "loop")
           /\ SF_vars(Handler(w) /\ LastCompleteReturned(w)')
    /\ \A s \in Stages : WF_vars(ExpireLease(s))

\* Worker w was killed while the store holds its lease on stage s.
Orphaned(w, s) ==
    /\ pc[w] = "killed"
    /\ stages[s] = [state |-> "leased", owner |-> w]

\* No worker other than w is left running.
NoOtherRunning(w) == \A v \in Workers \ {w} : pc[v] = "killed"

\* No other worker still holds a row of s from an earlier, expired claim.
NoEarlierHolder(w, s) == \A v \in Workers \ {w} : granted[v] # s

ClaimFailed(w) == exc[w] = "claim_error"

\* C12: in an iteration whose claim_next_stage call raised, no stage_id is held
\* and no generation or complete_stage call is made; the worker goes through
\* the handler to the error-backoff sleep and from there back to the claim.
C12_ClaimFailureBacksOff ==
    /\ [](\A w \in Workers :
             ClaimFailed(w) =>
                 /\ pc[w] \in {"except", "sleep_err"}
                 /\ stage_id[w] = None
                 /\ granted[w] = None
                 /\ genCalls[w] = << >>
                 /\ completeCalls[w] = << >>)
    /\ [][\A w \in Workers :
             (ClaimFailed(w) /\ pc'[w] # pc[w] /\ pc'[w] # "killed") =>
                 \/ pc[w] = "except" /\ pc'[w] = "sleep_err"
                 \/ /\ pc[w] = "sleep_err"
                    /\ AtClaim(w)'
                    /\ lastSleep'[w] = ERROR_BACKOFF_SECONDS]_vars

\* The handler has run after a failed claim and issued no call.
C12_Witness ==
    \E w \in Workers :
        /\ ClaimFailed(w)
        /\ pc[w] = "sleep_err"
        /\ genCalls[w] = << >>
        /\ completeCalls[w] = << >>

\* ------------------------------------------------------------- sleep intervals
\* Values WORKER_POLL_SECONDS can be configured to: below, at and above the
\* literal of the handler's sleep.
PollChoices == {1, WORKER_POLL_SECONDS, ERROR_BACKOFF_SECONDS, 8}

\* The deployment of the liveness checks under every configured poll interval.
PollInit ==
    /\ InitWith(PollChoices)
    /\ \A w \in Workers : enabled[w] /\ supabase[w]

PollSpec == PollInit /\ [][FairNext]_vars

\* Worker w is back at the claim right after the sleep of an error iteration
\* (an idle poll leaves emptyStreak positive; a success takes no sleep).
ErrorSleepTaken(w) ==
    /\ pc[w] = "loop"
    /\ lastSleep[w] > 0
    /\ emptyStreak[w] = 0

\* C13 as stated: the sleep after an error iteration is strictly longer than
\* the configured idle poll interval.
C13_BackoffLongerThanPoll ==
    \A w \in Workers : ErrorSleepTaken(w) => lastSleep[w] > poll_seconds

\* ------------------------------------------------------------- responses
\* C14 as stated: a response that cannot be parsed is a generation failure, so
\* no generation outcome, and no success report, carries the text obtained from
\* a malformed response.
C14_MalformedIsFailure ==
    \A w \in Workers :
        /\ output[w].text # safe_get_text("malformed")
        /\ \A i \in 1..Len(completeCalls[w]) :
               completeCalls[w][i].error = None =>
                   completeCalls[w][i].output.text # safe_get_text("malformed")

\* ------------------------------------------------------------- routing
\* Categories db_get_routing is called with: empty, without a row, with a row.
Categories == {"", "general", "game_developer", "seo_expert"}

\* The routing for the stage worker w claimed was read from its table row.
RoutedByRow(w) ==
    /\ Len(genCalls[w]) >= 1
    /\ RoutingRow(StageRow(granted[w]).category) # NoRow
    /\ genCalls[w][1].tier = RoutingRow(StageRow(granted[w]).category).primary_tier

\* C15: the router returns (flash, flash) for an empty category, an unconfigured
\* store, a category without a row and a lookup that raises, and the row's
\* tiers when the lookup returns a row; in a run, the routing step always ends
\* in a generation call, made with the row's tier or with flash.
C15_RoutingNeverAborts ==
    /\ [](\A w \in Workers : \A c \in Categories :
             /\ (c = "" \/ ~supabase[w] \/ RoutingRow(c) = NoRow) =>
                    db_get_routing(w, c) =
                        {[primary_tier |-> "flash", fallback_tier |-> "flash"]}
             /\ \A l \in LookupOutcomes(w, c) :
                    /\ l = "failed" =>
                           db_get_routing_on(c, l) =
                               [primary_tier |-> "flash", fallback_tier |-> "flash"]
                    /\ l = "row" => db_get_routing_on(c, l) = model_routing[c])
    /\ [](\A w \in Workers :
             Len(genCalls[w]) >= 1 =>
                 \/ RoutedByRow(w)
                 \/ /\ genCalls[w][1].tier = "flash"
                    /\ Len(genCalls[w]) = 2 => genCalls[w][2].tier = "flash")
    /\ [][\A w \in Workers :
             (pc[w] = "generate" /\ gemini_key[w] /\ pc'[w] \notin {"generate", "killed"}) =>
                 /\ pc'[w] \in {"complete", "fallback"}
                 /\ Len(genCalls'[w]) = 1]_vars

\* A stage whose category has a row was generated with the default tier: its
\* routing lookup failed and generation went on.
C15_Witness ==
    \E w \in Workers :
        /\ pc[w] = "complete"
        /\ Len(genCalls[w]) = 1
        /\ RoutingRow(StageRow(granted[w]).category) # NoRow
        /\ ~RoutedByRow(w)
        /\ genCalls[w][1].tier = "flash"

\* C16 as stated: a stage of job_type studio_video whose category has no
\* routing row is generated with the highest tier, and its success report
\* carries that tier.
C16_KeywordPolicy ==
    \A w \in Workers : \A i \in 1..Len(completeCalls[w]) :
        LET call == completeCalls[w][i] IN
        (/\ call.error = None
         /\ call.id \in Stages
         /\ StageRow(call.id).job_type = "studio_video"
         /\ RoutingRow(StageRow(call.id).category) = NoRow) =>
            /\ call.output.tier = "ultra"
            /\ genCalls[w][Len(genCalls[w])].model = MODELS("ultra")

\* C17 as stated: a worker without the generation credential never starts its
\* loop, so it never claims a stage and never reports one failed.
C17_NoLoopWithoutCredential ==
    \A w \in Workers :
        ~gemini_key[w] =>
            /\ ~InLoop(w)
            /\ granted[w] = None
            /\ completeCalls[w] = << >>

\* ------------------------------------------------------------- hung generation
\* Worker w waits for a generate_content call to return.
InGeneration(w) == pc[w] \in {"generate", "fallback"}

\* Worker w waits in this step too: its call has not returned and it was not
\* killed.
StillWaiting(w) == InGeneration(w) /\ pc'[w] = pc[w]

\* The store holds the lease of worker w on the stage it claimed.
HoldsLease(w) ==
    /\ granted[w] \in Stages
    /\ stages[granted[w]] = [state |-> "leased", owner |-> w]

\* Worker v issues a complete_stage call for stage s in this step.
CompletesNow(v, s) ==
    /\ granted[v] = s
    /\ Len(completeCalls'[v]) = Len(completeCalls[v]) + 1
    /\ completeCalls'[v][Len(completeCalls'[v])].id = s

\* While worker w waits, it issues no call and keeps its stage.
WaitsIdle(w) ==
    StillWaiting(w) =>
        /\ completeCalls'[w] = completeCalls[w]
        /\ genCalls'[w] = genCalls[w]
        /\ granted'[w] = granted[w]
        /\ stage_id'[w] = stage_id[w]

\* Nothing but the call's return or a kill ends the wait: no timeout.
NoTimeout(w) ==
    (InGeneration(w) /\ pc'[w] # pc[w]) =>
        \/ pc'[w] = "killed"
        \/ Len(genCalls'[w]) = Len(genCalls[w]) + 1
        \/ ~gemini_key[w] /\ pc'[w] = "except"

\* C18 as stated: while a worker waits for a generation call it issues no other
\* call, nothing times the wait out, and its stage leaves the leased state only
\* by the lease expiring to pending.
C18_HungOnlyExpiry ==
    [][\A w \in Workers :
          /\ WaitsIdle(w)
          /\ NoTimeout(w)
          /\ (StillWaiting(w) /\ HoldsLease(w) /\ ~HoldsLease(w)') =>
                 stages'[granted[w]].state = "pending"]_vars

\* C18 amended: the stage of the waiting worker leaves the leased state by the
\* lease expiring to pending, or by a complete_stage call of another worker
\* that had claimed the same stage before an earlier lease on it expired.
C18_HungExpiryOrEarlierHolder ==
    [][\A w \in Workers :
          /\ WaitsIdle(w)
          /\ NoTimeout(w)
          /\ (StillWaiting(w) /\ HoldsLease(w) /\ ~HoldsLease(w)') =>
                 \/ /\ stages'[granted[w]] = [state |-> "pending", owner |-> None]
                    /\ \A v \in Workers : completeCalls'[v] = completeCalls[v]
                 \/ \E v \in Workers \ {w} : CompletesNow(v, granted[w])]_vars

\* A worker still waits for its generation call after an earlier holder of the
\* same stage has completed it.
C18_Witness ==
    \E w \in Workers : \E v \in Workers \ {w} :
        /\ InGeneration(w)
        /\ ~leaseLost[w]
        /\ granted[v] = granted[w]
        /\ Len(completeCalls[v]) >= 1
        /\ stages[granted[w]].state \in {"done", "failed"}

\* ------------------------------------------------------------- reports
\* C19 as stated: a complete_stage call with an error is issued only in an
\* iteration that produced no generation outcome.
C19_NoFailureAfterSuccess ==
    \A w \in Workers : \A i \in 1..Len(completeCalls[w]) :
        completeCalls[w][i].error # None => output[w] = NoOutput

\* ------------------------------------------------------------- malformed rows
\* The deployment of the liveness checks against a store whose claim may
\* return a row without a stage_id.
MalformedNext ==
    \/ FairNext
    \/ \E w \in Workers : ClaimMalformed(w)

MalformedSpec == FairInit /\ [][MalformedNext]_vars

\* C20 as stated: no complete_stage call carries a null stage_id, and an
\* iteration that claimed a row issues at least one complete_stage call.
C20_TerminalCallWithId ==
    \A w \in Workers :
        /\ \A i \in 1..Len(completeCalls[w]) : completeCalls[w][i].id # None
        /\ (IterationOver(w) /\ granted[w] # None) => Len(completeCalls[w]) >= 1

====
